---------------------------- MODULE Spec2Model ----------------------------
(***************************************************************************)
(* A model of weldcalc: WeldLine and WeldGroup of src/weldcalc.py, and the *)
(* details form's Apply handler of src/weldview.py.                        *)
(*                                                                         *)
(* Numbers.  The program computes in IEEE doubles (numpy).  The model      *)
(* computes exactly in the field Q(sqrt 2): the number (p + q*sqrt2)/d is  *)
(* the triple <<p, q, d>> with d > 0 in lowest terms, and a triple with    *)
(* d = 0 is a non-finite double (NaN, or +-infinity).  Every input the     *)
(* model draws keeps every intermediate value inside that field: segment   *)
(* directions are axis-parallel or diagonal, angles are multiples of 90    *)
(* degrees, the fillet throat factor is 1/sqrt2.  What the model does not  *)
(* show is rounding in the last place of a double (cos(radians(90)) is     *)
(* 6.1e-17 in the program and 0 here).                                     *)
(***************************************************************************)
EXTENDS Integers, Sequences, FiniteSets, TLC

----------------------------------------------------------------------------
(* Exact arithmetic standing for numpy's float64 arithmetic.               *)

Abs(n) == IF n < 0 THEN -n ELSE n

RECURSIVE GCD(_, _)
GCD(a, b) == IF b = 0 THEN a ELSE GCD(b, a % b)

NaN == <<0, 0, 0>>

IsFinite(x) == x[3] # 0

IsNaN(x) == x = NaN

\* (p + q*sqrt2)/d in lowest terms with a positive denominator
Nm(p, q, d) ==
    IF d = 0 THEN NaN
    ELSE IF d = 1 THEN <<p, q, d>>
    ELSE LET g == GCD(GCD(Abs(p), Abs(q)), Abs(d))
             s == IF d < 0 THEN -1 ELSE 1
         IN  <<(s * p) \div g, (s * q) \div g, (s * d) \div g>>

Z(n) == <<n, 0, 1>>

Q(n, d) == Nm(n, 0, d)

Zero == Z(0)

One == Z(1)

\* sign of p + q*sqrt2, by comparing p^2 with 2 q^2
SignPQ(p, q) ==
    IF p >= 0 /\ q >= 0 THEN (IF p = 0 /\ q = 0 THEN 0 ELSE 1)
    ELSE IF p <= 0 /\ q <= 0 THEN -1
    ELSE IF p > 0 THEN (IF p * p > 2 * q * q THEN 1 ELSE -1)
    ELSE (IF 2 * q * q > p * p THEN 1 ELSE -1)

\* sign of a finite number, or of an infinity; 0 for NaN
Sign(x) == SignPQ(x[1], x[2])

FNeg(x) == <<-x[1], -x[2], x[3]>>

\* float addition; a non-finite operand gives NaN (inf + finite = inf is not
\* needed: no modelled call adds to an infinity)
FAdd(x, y) ==
    IF ~IsFinite(x) \/ ~IsFinite(y) THEN NaN
    ELSE IF y = Zero THEN x
    ELSE IF x = Zero THEN y
    ELSE LET g == GCD(x[3], y[3])
             a == y[3] \div g
             b == x[3] \div g
         IN  Nm(x[1] * a + y[1] * b, x[2] * a + y[2] * b, x[3] * a)

FSub(x, y) == FAdd(x, FNeg(y))

\* float multiplication; nan * 0 = nan as in IEEE arithmetic
FMul(x, y) ==
    IF ~IsFinite(x) \/ ~IsFinite(y) THEN NaN
    ELSE IF x = Zero \/ y = Zero THEN Zero
    ELSE IF x = One THEN y
    ELSE IF y = One THEN x
    ELSE Nm(x[1] * y[1] + 2 * x[2] * y[2], x[1] * y[2] + x[2] * y[1],
            x[3] * y[3])

\* numpy float division: 0/0 = nan and x/0 = +-inf, with a RuntimeWarning and
\* no exception
FDiv(x, y) ==
    IF ~IsFinite(x) \/ ~IsFinite(y) THEN NaN
    ELSE IF y[1] = 0 /\ y[2] = 0 THEN <<Sign(x), 0, 0>>
    ELSE LET n == y[1] * y[1] - 2 * y[2] * y[2]
         IN  Nm(y[3] * (x[1] * y[1] - 2 * x[2] * y[2]),
                y[3] * (x[2] * y[1] - x[1] * y[2]),
                x[3] * n)

FLt(x, y) == IsFinite(x) /\ IsFinite(y) /\ Sign(FSub(x, y)) < 0

FLe(x, y) == IsFinite(x) /\ IsFinite(y) /\ Sign(FSub(x, y)) <= 0

\* the integer square root of a perfect square
ISqrt(n) == CHOOSE k \in 0..n : k * k = n

IsSquare(n) == \E k \in 0..n : k * k = n

\* np.sqrt of a non-negative rational whose root lies in Q(sqrt 2)
FSqrt(x) ==
    IF ~IsFinite(x) THEN NaN
    ELSE LET n == x[1] * x[3]
         IN  IF IsSquare(n) THEN Nm(ISqrt(n), 0, x[3])
             ELSE Nm(0, ISqrt(n \div 2), x[3])

\* float -> int64 cast of an array assignment: truncation toward zero
Trunc(x) ==
    LET a == Abs(x[1]) \div x[3]
    IN  Z(IF x[1] < 0 THEN -a ELSE a)

----------------------------------------------------------------------------
(* Vectors and matrices (numpy arrays of float64).                         *)

\* The value of the last of a sequence of assignments, each evaluated in
\* turn as the statements of a Python function body are.
InOrder(stmts) == stmts[Len(stmts)]

Vec3(v) == <<v[1], v[2], v[3]>>

VAdd(u, v) == <<FAdd(u[1], v[1]), FAdd(u[2], v[2]), FAdd(u[3], v[3])>>

VSub(u, v) == <<FSub(u[1], v[1]), FSub(u[2], v[2]), FSub(u[3], v[3])>>

VDivS(u, c) == <<FDiv(u[1], c), FDiv(u[2], c), FDiv(u[3], c)>>

\* sums in index order
Sum3(a, b, c) == FAdd(FAdd(a, b), c)

Sum4(a, b, c, d) == FAdd(FAdd(FAdd(a, b), c), d)

\* np.dot of two 3-vectors
Dot(u, v) == Sum3(FMul(u[1], v[1]), FMul(u[2], v[2]), FMul(u[3], v[3]))

\* la.norm of a 3-vector
Norm(v) == LET d == Dot(v, v) IN InOrder(<<d, FSqrt(d)>>)

\* np.cross
Cross(u, v) ==
    <<FSub(FMul(u[2], v[3]), FMul(u[3], v[2])),
      FSub(FMul(u[3], v[1]), FMul(u[1], v[3])),
      FSub(FMul(u[1], v[2]), FMul(u[2], v[1]))>>

\* np.outer(u, v)
Outer(u, v) ==
    <<<<FMul(u[1], v[1]), FMul(u[1], v[2]), FMul(u[1], v[3])>>,
      <<FMul(u[2], v[1]), FMul(u[2], v[2]), FMul(u[2], v[3])>>,
      <<FMul(u[3], v[1]), FMul(u[3], v[2]), FMul(u[3], v[3])>>>>

\* np.eye(3)
Eye3 == <<<<One, Zero, Zero>>, <<Zero, One, Zero>>, <<Zero, Zero, One>>>>

\* np.eye(4)
Eye4 ==
    <<<<One, Zero, Zero, Zero>>, <<Zero, One, Zero, Zero>>,
      <<Zero, Zero, One, Zero>>, <<Zero, Zero, Zero, One>>>>

\* A @ B, 3x3 matrices
MatMul3(A, B) ==
    LET e(i, j) == Sum3(FMul(A[i][1], B[1][j]), FMul(A[i][2], B[2][j]),
                        FMul(A[i][3], B[3][j]))
    IN  <<<<e(1, 1), e(1, 2), e(1, 3)>>,
          <<e(2, 1), e(2, 2), e(2, 3)>>,
          <<e(3, 1), e(3, 2), e(3, 3)>>>>

\* A @ B, 4x4 matrices
MatMul4(A, B) ==
    LET e(i, j) == Sum4(FMul(A[i][1], B[1][j]), FMul(A[i][2], B[2][j]),
                        FMul(A[i][3], B[3][j]), FMul(A[i][4], B[4][j]))
    IN  <<<<e(1, 1), e(1, 2), e(1, 3), e(1, 4)>>,
          <<e(2, 1), e(2, 2), e(2, 3), e(2, 4)>>,
          <<e(3, 1), e(3, 2), e(3, 3), e(3, 4)>>,
          <<e(4, 1), e(4, 2), e(4, 3), e(4, 4)>>>>

\* A @ v, a 4x4 matrix and a homogeneous 4-vector
MatVec(A, v) ==
    LET e(i) == Sum4(FMul(A[i][1], v[1]), FMul(A[i][2], v[2]),
                     FMul(A[i][3], v[3]), FMul(A[i][4], v[4]))
    IN  <<e(1), e(2), e(3), e(4)>>

\* np.transpose of a 3x3 matrix
Transpose3(A) ==
    <<<<A[1][1], A[2][1], A[3][1]>>,
      <<A[1][2], A[2][2], A[3][2]>>,
      <<A[1][3], A[2][3], A[3][3]>>>>

\* A * B on 3x3 arrays: the elementwise product
Hadamard(A, B) ==
    LET e(i, j) == FMul(A[i][j], B[i][j])
    IN  <<<<e(1, 1), e(1, 2), e(1, 3)>>,
          <<e(2, 1), e(2, 2), e(2, 3)>>,
          <<e(3, 1), e(3, 2), e(3, 3)>>>>

\* A + B on 3x3 arrays
MatAdd(A, B) ==
    LET e(i, j) == FAdd(A[i][j], B[i][j])
    IN  <<<<e(1, 1), e(1, 2), e(1, 3)>>,
          <<e(2, 1), e(2, 2), e(2, 3)>>,
          <<e(3, 1), e(3, 2), e(3, 3)>>>>

\* A - B on 3x3 arrays
MatSub(A, B) ==
    LET e(i, j) == FSub(A[i][j], B[i][j])
    IN  <<<<e(1, 1), e(1, 2), e(1, 3)>>,
          <<e(2, 1), e(2, 2), e(2, 3)>>,
          <<e(3, 1), e(3, 2), e(3, 3)>>>>

\* c * A on a 3x3 array
MatScale(A, c) ==
    LET e(i, j) == FMul(A[i][j], c)
    IN  <<<<e(1, 1), e(1, 2), e(1, 3)>>,
          <<e(2, 1), e(2, 2), e(2, 3)>>,
          <<e(3, 1), e(3, 2), e(3, 3)>>>>

\* M[:3, :3]
Block3(M) ==
    <<<<M[1][1], M[1][2], M[1][3]>>,
      <<M[2][1], M[2][2], M[2][3]>>,
      <<M[3][1], M[3][2], M[3][3]>>>>

Diag3(a, b, c) == <<<<a, Zero, Zero>>, <<Zero, b, Zero>>, <<Zero, Zero, c>>>>

\* np.cos(np.radians(angle)) and np.sin(np.radians(angle)) for an angle that
\* is a whole multiple of 45 degrees
Octant(angle) == ((angle[1] \div angle[3]) % 360) \div 45

HalfSqrt2 == <<0, 1, 2>>

Cos(angle) ==
    CASE Octant(angle) = 0 -> One
      [] Octant(angle) = 1 -> HalfSqrt2
      [] Octant(angle) = 2 -> Zero
      [] Octant(angle) = 3 -> FNeg(HalfSqrt2)
      [] Octant(angle) = 4 -> FNeg(One)
      [] Octant(angle) = 5 -> FNeg(HalfSqrt2)
      [] Octant(angle) = 6 -> Zero
      [] Octant(angle) = 7 -> HalfSqrt2

Sin(angle) ==
    CASE Octant(angle) = 0 -> Zero
      [] Octant(angle) = 1 -> HalfSqrt2
      [] Octant(angle) = 2 -> One
      [] Octant(angle) = 3 -> HalfSqrt2
      [] Octant(angle) = 4 -> Zero
      [] Octant(angle) = 5 -> FNeg(HalfSqrt2)
      [] Octant(angle) = 6 -> FNeg(One)
      [] Octant(angle) = 7 -> FNeg(HalfSqrt2)

----------------------------------------------------------------------------
(* Results of calls.  A call returns a value or raises; None is Python's   *)
(* None.                                                                   *)

None == << >>

Ok(v) == [err |-> "none", val |-> v]

Raise(e) == [err |-> e, val |-> None]

Failed(r) == r.err # "none"

----------------------------------------------------------------------------
(* class WeldLine.  wl is a weld line, g the weld group that owns it.      *)
(* A point given to the program is [xy |-> <<x, y>>, isfloat |-> b]: b     *)
(* tells whether the tuple holds a Python float, which decides the dtype   *)
(* of the array np.array builds from it.                                   *)

\* WeldLine.__init__
WeldLine(from_point, to_point) ==
    [_from_point |-> <<from_point.xy[1], from_point.xy[2], Zero, One>>,
     _to_point   |-> <<to_point.xy[1], to_point.xy[2], Zero, One>>,
     from_float  |-> from_point.isfloat,
     to_float    |-> to_point.isfloat]

\* WeldLine.size
WeldLine_size(wl, g) == g.size

\* WeldLine.weld_type
WeldLine_weld_type(wl, g) == g.weld_type

\* WeldLine.transform: the local frame at the centre of the line
WeldLine_transform(wl) ==
    LET from_point == Vec3(wl._from_point)
        to_point   == Vec3(wl._to_point)
        _yaxis     == VSub(to_point, from_point)
        norm       == Norm(_yaxis)
        yaxis      == VDivS(_yaxis, norm)
        zaxis      == <<Zero, Zero, One>>
        xaxis      == Cross(yaxis, zaxis)
        sum        == VAdd(from_point, to_point)
        center     == VDivS(sum, Z(2))
        tf         == <<<<xaxis[1], yaxis[1], zaxis[1], center[1]>>,
                        <<xaxis[2], yaxis[2], zaxis[2], center[2]>>,
                        <<xaxis[3], yaxis[3], zaxis[3], center[3]>>,
                        <<Zero, Zero, Zero, One>>>>
    IN  InOrder(<<_yaxis, norm, yaxis, xaxis, sum, center, tf>>)

\* from_point that hands back the stored local coordinates
WeldLine_from_point_local(wl, g) == Vec3(wl._from_point)

\* WeldLine.from_point (getter)
WeldLine_from_point(wl, g) == Vec3(MatVec(g._transform, wl._from_point))

\* WeldLine.to_point (getter)
WeldLine_to_point(wl, g) == Vec3(MatVec(g._transform, wl._to_point))

\* the cast of an assigned coordinate to the dtype of the array
Cast(x, isfloat) == IF isfloat THEN x ELSE Trunc(x)

\* WeldLine.from_point (setter): self._from_point[:2] = value
WeldLine_set_from_point(wl, value) ==
    [wl EXCEPT !._from_point = <<Cast(value.xy[1], wl.from_float),
                                 Cast(value.xy[2], wl.from_float), @[3], @[4]>>]

\* WeldLine.to_point (setter): self._to_point[:2] = value
WeldLine_set_to_point(wl, value) ==
    [wl EXCEPT !._to_point = <<Cast(value.xy[1], wl.to_float),
                               Cast(value.xy[2], wl.to_float), @[3], @[4]>>]

\* a center that is the from point
WeldLine_center_from(wl, g) == WeldLine_from_point(wl, g)

\* WeldLine.center
WeldLine_center(wl, g) ==
    LET from_point == WeldLine_from_point(wl, g)
        to_point   == WeldLine_to_point(wl, g)
        sum        == VAdd(from_point, to_point)
    IN  InOrder(<<from_point, to_point, sum, VDivS(sum, Z(2))>>)

\* WeldLine.length
WeldLine_length(wl, g) ==
    LET to_point   == WeldLine_to_point(wl, g)
        from_point == WeldLine_from_point(wl, g)
        diff       == VSub(to_point, from_point)
    IN  InOrder(<<to_point, from_point, diff, Norm(diff)>>)

\* a throat that is the size whatever the weld type
WeldLine_throat_size(wl, g) == WeldLine_size(wl, g)

\* WeldLine.throat: falls off the end, returning None, for any other type
WeldLine_throat(wl, g) ==
    IF WeldLine_weld_type(wl, g) = "fillet"
    THEN FMul(HalfSqrt2, WeldLine_size(wl, g))
    ELSE IF WeldLine_weld_type(wl, g) = "groove"
    THEN WeldLine_size(wl, g)
    ELSE None

\* WeldLine.area: None * float raises TypeError
WeldLine_area(wl, g) ==
    IF WeldLine_throat(wl, g) = None THEN Raise("TypeError")
    ELSE Ok(FMul(WeldLine_throat(wl, g), WeldLine_length(wl, g)))

\* an rmat that is the identity whatever the direction of the line
WeldLine_rmat_eye(wl) == Eye3

\* WeldLine.rmat
WeldLine_rmat(wl) ==
    LET tf == WeldLine_transform(wl) IN InOrder(<<tf, Block3(tf)>>)

\* an inertia whose Iz is Ix alone
WeldLine_inertia_Iz_is_Ix(wl, g) ==
    IF WeldLine_throat(wl, g) = None THEN Raise("TypeError")
    ELSE LET t    == WeldLine_throat(wl, g)
             L    == WeldLine_length(wl, g)
             Ix   == FMul(FMul(Q(1, 12), t), FMul(L, FMul(L, L)))
             Iy   == FMul(FMul(Q(1, 12), FMul(t, FMul(t, t))), L)
             imat == Diag3(Ix, Iy, Ix)
             rm   == WeldLine_rmat(wl)
             ri   == MatMul3(rm, imat)
             rt   == Transpose3(rm)
         IN  InOrder(<<t, L, Ix, Iy, imat, rm, ri, rt, Ok(MatMul3(ri, rt))>>)

\* WeldLine.inertia: about the centre of the line, in the group's axes
WeldLine_inertia(wl, g) ==
    IF WeldLine_throat(wl, g) = None THEN Raise("TypeError")
    ELSE LET t    == WeldLine_throat(wl, g)
             L    == WeldLine_length(wl, g)
             Ix   == FMul(FMul(Q(1, 12), t), FMul(L, FMul(L, L)))
             Iy   == FMul(FMul(Q(1, 12), FMul(t, FMul(t, t))), L)
             Iz   == FAdd(Ix, Iy)
             imat == Diag3(Ix, Iy, Iz)
             rm   == WeldLine_rmat(wl)
             ri   == MatMul3(rm, imat)
             rt   == Transpose3(rm)
         IN  InOrder(<<t, L, Ix, Iy, Iz, imat, rm, ri, rt,
                       Ok(MatMul3(ri, rt))>>)

----------------------------------------------------------------------------
(* class WeldGroup.  A group is the record of its attributes; name, color, *)
(* style and scale are stored and read by no operation modelled here, and  *)
(* are left out.  An axis limit is "auto" or a float.                      *)

Auto == [auto |-> TRUE, v |-> Zero]

Lim(x) == [auto |-> FALSE, v |-> x]

Zeros3 == <<Zero, Zero, Zero>>

\* the argument id=None of WeldGroup.__init__
NoId == "None"

\* WeldGroup.__init__; cnt is the class attribute WeldGroup.count, and the
\* result is the new object with the new value of the class attribute
WeldGroup_init(id, size, weld_type, cnt) ==
    [wg    |-> [id           |-> IF id = NoId THEN ToString(cnt) ELSE id,
                size         |-> size,
                weld_type    |-> weld_type,
                _xlim        |-> <<Auto, Auto>>,
                _ylim        |-> <<Auto, Auto>>,
                weld_lines   |-> << >>,
                _translation |-> Zeros3,
                _rotation    |-> Zeros3,
                _transform   |-> Eye4],
     count |-> IF id = NoId THEN cnt + 1 ELSE cnt]

\* WeldGroup.transform (getter)
WeldGroup_transform(g) == g._transform

\* reset_transform that leaves the matrix as it is
reset_transform_keeps_matrix(g) ==
    [g EXCEPT !._translation = Zeros3, !._rotation = Zeros3]

\* reset_transform that resets nothing
reset_transform_nothing(g) == g

\* WeldGroup.reset_transform: all three arrays are overwritten in place
reset_transform(g) ==
    [g EXCEPT !._translation = Zeros3,
              !._rotation    = Zeros3,
              !._transform   = Eye4]

\* WeldGroup._translate
_translate(g, tx, ty, tz) ==
    LET tmat == <<<<One, Zero, Zero, tx>>,
                  <<Zero, One, Zero, ty>>,
                  <<Zero, Zero, One, tz>>,
                  <<Zero, Zero, Zero, One>>>>
    IN  [g EXCEPT !._transform = MatMul4(@, tmat)]

\* WeldGroup._rotateZ
_rotateZ(g, angle) ==
    LET rmat == <<<<Cos(angle), FNeg(Sin(angle)), Zero, Zero>>,
                  <<Sin(angle), Cos(angle), Zero, Zero>>,
                  <<Zero, Zero, One, Zero>>,
                  <<Zero, Zero, Zero, One>>>>
    IN  [g EXCEPT !._transform = MatMul4(@, rmat)]

\* WeldGroup._rotateX
_rotateX(g, angle) ==
    LET rmat == <<<<One, Zero, Zero, Zero>>,
                  <<Zero, Cos(angle), FNeg(Sin(angle)), Zero>>,
                  <<Zero, Sin(angle), Cos(angle), Zero>>,
                  <<Zero, Zero, Zero, One>>>>
    IN  [g EXCEPT !._transform = MatMul4(@, rmat)]

\* WeldGroup._rotateY
_rotateY(g, angle) ==
    LET rmat == <<<<Cos(angle), Zero, Sin(angle), Zero>>,
                  <<Zero, One, Zero, Zero>>,
                  <<FNeg(Sin(angle)), Zero, Cos(angle), Zero>>,
                  <<Zero, Zero, Zero, One>>>>
    IN  [g EXCEPT !._transform = MatMul4(@, rmat)]

\* WeldGroup.update_transform: reset, then translate by and rotate about the
\* vectors as they are after the reset
update_transform(g) ==
    LET g0 == reset_transform(g)
        g1 == _translate(g0, g0._translation[1], g0._translation[2],
                         g0._translation[3])
        g2 == _rotateX(g1, g1._rotation[1])
        g3 == _rotateY(g2, g1._rotation[2])
    IN  InOrder(<<g0, g1, g2, g3, _rotateZ(g3, g1._rotation[3])>>)

\* WeldGroup.translation (setter): self._translation[:] = values
set_translation(g, values) == [g EXCEPT !._translation = values]

\* WeldGroup.rotation (setter): self._rotation[:] = values
set_rotation(g, values) == [g EXCEPT !._rotation = values]

\* WeldGroup.add_weld_line
add_weld_line(g, from_point, to_point) ==
    [g EXCEPT !.weld_lines = Append(@, WeldLine(from_point, to_point))]

\* a loop that keeps only the length of the line of its last pass
length_loop_last(g, n) ==
    IF n = 0 THEN Zero ELSE WeldLine_length(g.weld_lines[n], g)

RECURSIVE length_loop(_, _)
\* group_length after the first n passes of the loop of WeldGroup.length
length_loop(g, n) ==
    IF n = 0 THEN Zero
    ELSE FAdd(length_loop(g, n - 1), WeldLine_length(g.weld_lines[n], g))

\* WeldGroup.length
length(g) == length_loop(g, Len(g.weld_lines))

RECURSIVE cg_loop(_, _)
\* <<cx, cy, cz, wt>> after the first n passes of the loop of WeldGroup.cg
cg_loop(g, n) ==
    IF n = 0 THEN <<Zero, Zero, Zero, Zero>>
    ELSE LET acc == cg_loop(g, n - 1)
             c   == WeldLine_center(g.weld_lines[n], g)
             L   == WeldLine_length(g.weld_lines[n], g)
         IN  InOrder(<<acc, c, L,
                       <<FAdd(acc[1], FMul(c[1], L)),
                         FAdd(acc[2], FMul(c[2], L)),
                         FAdd(acc[3], FMul(c[3], L)), FAdd(acc[4], L)>>>>)

\* WeldGroup.cg: with no weld line the division is 0/0 on Python ints and
\* raises; otherwise it is a division of numpy floats
cg(g) ==
    LET s == cg_loop(g, Len(g.weld_lines))
    IN  IF Len(g.weld_lines) = 0 THEN Raise("ZeroDivisionError")
        ELSE Ok(<<FDiv(s[1], s[4]), FDiv(s[2], s[4]), FDiv(s[3], s[4])>>)

\* a loop that keeps only the area of the line of its last pass
area_loop_last(g, n) ==
    IF n = 0 THEN Ok(Zero) ELSE WeldLine_area(g.weld_lines[n], g)

RECURSIVE area_loop(_, _)
\* group_area after the first n passes of the loop of WeldGroup.area, or the
\* error the first failing pass raised
area_loop(g, n) ==
    IF n = 0 THEN Ok(Zero)
    ELSE LET acc == area_loop(g, n - 1)
             a   == WeldLine_area(g.weld_lines[n], g)
         IN  IF Failed(acc) THEN acc
             ELSE IF Failed(a) THEN a
             ELSE Ok(FAdd(acc.val, a.val))

\* WeldGroup.area
area(g) == area_loop(g, Len(g.weld_lines))

\* WeldGroup.rmat
rmat(g) == Block3(g._transform)

\* the matrix J of one pass of the loop of WeldGroup.inertia; c is what
\* self.cg() returns, the same in every pass
inertia_J(wl, g, c) ==
    LET center == WeldLine_center(wl, g)
        R      == VSub(center, c)
        rm     == rmat(g)
        wi     == WeldLine_inertia(wl, g).val
        ri     == Hadamard(rm, wi)
        rt     == Transpose3(rm)
        I      == Hadamard(ri, rt)
        t      == WeldLine_throat(wl, g)
        L      == WeldLine_length(wl, g)
        w      == FMul(t, L)
        RR     == Dot(R, R)
        RRI    == MatScale(Eye3, RR)
        RxR    == Outer(R, R)
        D      == MatSub(RRI, RxR)
        wD     == MatScale(D, w)
    IN  InOrder(<<c, center, R, rm, wi, ri, rt, I, t, L, w, RR, RRI, RxR, D,
                  wD, MatAdd(I, wD)>>)

RECURSIVE inertia_loop(_, _, _)
\* <<Ix, Iy, Iz>> after the first n passes of the loop of WeldGroup.inertia,
\* or the error the first failing pass raised
inertia_loop(g, n, c) ==
    IF n = 0 THEN Ok(<<Zero, Zero, Zero>>)
    ELSE LET acc == inertia_loop(g, n - 1, c)
             J   == inertia_J(g.weld_lines[n], g, c)
         IN  IF Failed(acc) THEN acc
             ELSE IF WeldLine_throat(g.weld_lines[n], g) = None
             THEN Raise("TypeError")
             ELSE InOrder(<<J, Ok(<<FAdd(acc.val[1], J[1][1]),
                                     FAdd(acc.val[2], J[2][2]),
                                     FAdd(acc.val[3], J[3][3])>>)>>)

\* WeldGroup.inertia: with no weld line the loop body never runs
inertia(g) ==
    LET c == cg(g).val
        s == inertia_loop(g, Len(g.weld_lines), c)
    IN  InOrder(<<c, s, IF Failed(s) THEN s
                        ELSE Ok(Diag3(s.val[1], s.val[2], s.val[3]))>>)

\* r[k][k] of what inertia() returns
diag_entry(r, k) == IF Failed(r) THEN r ELSE Ok(r.val[k][k])

\* WeldGroup.ixx
ixx(g) == diag_entry(inertia(g), 1)

\* WeldGroup.iyy
iyy(g) == diag_entry(inertia(g), 2)

\* WeldGroup.izz
izz(g) == diag_entry(inertia(g), 3)

----------------------------------------------------------------------------
(* class MultiWeldGroup.  m is the assembly; its list weld_groups holds    *)
(* references to weld group objects, and h is the heap they point into:    *)
(* h[r] is the object the reference r names, as it is now.                 *)

\* MultiWeldGroup.__init__
MultiWeldGroup_init == [weld_groups |-> << >>]

\* MultiWeldGroup.add_weld_group
add_weld_group(m, weld_group) ==
    [m EXCEPT !.weld_groups = Append(@, weld_group)]

RECURSIVE MultiWeldGroup_length_loop(_, _, _)
\* group_length after the first n passes of the loop of
\* MultiWeldGroup.length
MultiWeldGroup_length_loop(m, h, n) ==
    IF n = 0 THEN Zero
    ELSE LET acc == MultiWeldGroup_length_loop(m, h, n - 1)
             L   == length(h[m.weld_groups[n]])
         IN  InOrder(<<acc, L, FAdd(acc, L)>>)

\* a length that is the length of the member appended last
MultiWeldGroup_length_last(m, h) ==
    IF Len(m.weld_groups) = 0 THEN Zero
    ELSE length(h[m.weld_groups[Len(m.weld_groups)]])

\* MultiWeldGroup.length
MultiWeldGroup_length(m, h) ==
    MultiWeldGroup_length_loop(m, h, Len(m.weld_groups))

RECURSIVE MultiWeldGroup_area_loop(_, _, _)
\* group_area after the first n passes of the loop of MultiWeldGroup.area,
\* or the error the first failing pass raised
MultiWeldGroup_area_loop(m, h, n) ==
    IF n = 0 THEN Ok(Zero)
    ELSE LET acc == MultiWeldGroup_area_loop(m, h, n - 1)
             a   == area(h[m.weld_groups[n]])
         IN  IF Failed(acc) THEN acc
             ELSE IF Failed(a) THEN a
             ELSE Ok(FAdd(acc.val, a.val))

\* MultiWeldGroup.area
MultiWeldGroup_area(m, h) ==
    MultiWeldGroup_area_loop(m, h, Len(m.weld_groups))

RECURSIVE MultiWeldGroup_cg_loop(_, _, _)
\* Ok(<<cx, cy, cz, wt>>) after the first n passes of the loop of
\* MultiWeldGroup.cg, or the error the first failing pass raised
MultiWeldGroup_cg_loop(m, h, n) ==
    IF n = 0 THEN Ok(<<Zero, Zero, Zero, Zero>>)
    ELSE LET acc == MultiWeldGroup_cg_loop(m, h, n - 1)
             c   == cg(h[m.weld_groups[n]])
             L   == length(h[m.weld_groups[n]])
         IN  IF Failed(acc) THEN acc
             ELSE IF Failed(c) THEN c
             ELSE InOrder(<<L, Ok(<<FAdd(acc.val[1], FMul(c.val[1], L)),
                                    FAdd(acc.val[2], FMul(c.val[2], L)),
                                    FAdd(acc.val[3], FMul(c.val[3], L)),
                                    FAdd(acc.val[4], L)>>)>>)

\* MultiWeldGroup.cg: with no weld group the division is 0/0 on Python ints
\* and raises; otherwise it is a division of numpy floats
MultiWeldGroup_cg(m, h) ==
    LET s == MultiWeldGroup_cg_loop(m, h, Len(m.weld_groups))
    IN  IF Failed(s) THEN s
        ELSE IF Len(m.weld_groups) = 0 THEN Raise("ZeroDivisionError")
        ELSE Ok(<<FDiv(s.val[1], s.val[4]), FDiv(s.val[2], s.val[4]),
                  FDiv(s.val[3], s.val[4])>>)

\* a pass that weighs the shift of a member by its area()
MultiWeldGroup_inertia_J_area(g, c) ==
    LET gc  == cg(g)
        gi  == inertia(g)
        R   == VSub(gc.val, c.val)
        rm  == Eye3
        ri  == Hadamard(rm, gi.val)
        rt  == Transpose3(rm)
        I   == Hadamard(ri, rt)
        L   == area(g).val
        RR  == Dot(R, R)
        RRI == MatScale(Eye3, RR)
        RxR == Outer(R, R)
        D   == MatSub(RRI, RxR)
        LD  == MatScale(D, L)
    IN  IF Failed(gc) THEN gc
        ELSE IF Failed(c) THEN c
        ELSE IF Failed(gi) THEN gi
        ELSE InOrder(<<R, ri, rt, I, L, RR, RRI, RxR, D, LD,
                       Ok(MatAdd(I, LD))>>)

\* the matrix J of one pass of the loop of MultiWeldGroup.inertia, or the
\* error the pass raised; c is what self.cg() returns
MultiWeldGroup_inertia_J(g, c) ==
    LET gc  == cg(g)
        gi  == inertia(g)
        R   == VSub(gc.val, c.val)
        rm  == Eye3
        ri  == Hadamard(rm, gi.val)
        rt  == Transpose3(rm)
        I   == Hadamard(ri, rt)
        L   == length(g)
        RR  == Dot(R, R)
        RRI == MatScale(Eye3, RR)
        RxR == Outer(R, R)
        D   == MatSub(RRI, RxR)
        LD  == MatScale(D, L)
    IN  IF Failed(gc) THEN gc
        ELSE IF Failed(c) THEN c
        ELSE IF Failed(gi) THEN gi
        ELSE InOrder(<<R, ri, rt, I, L, RR, RRI, RxR, D, LD,
                       Ok(MatAdd(I, LD))>>)

RECURSIVE MultiWeldGroup_inertia_loop(_, _, _, _)
\* Ok(<<Ix, Iy, Iz>>) after the first n passes of the loop of
\* MultiWeldGroup.inertia, or the error the first failing pass raised
MultiWeldGroup_inertia_loop(m, h, n, c) ==
    IF n = 0 THEN Ok(<<Zero, Zero, Zero>>)
    ELSE LET acc == MultiWeldGroup_inertia_loop(m, h, n - 1, c)
             J   == MultiWeldGroup_inertia_J(h[m.weld_groups[n]], c)
         IN  IF Failed(acc) THEN acc
             ELSE IF Failed(J) THEN J
             ELSE Ok(<<FAdd(acc.val[1], J.val[1][1]),
                       FAdd(acc.val[2], J.val[2][2]),
                       FAdd(acc.val[3], J.val[3][3])>>)

\* MultiWeldGroup.inertia: with no weld group the loop body never runs
MultiWeldGroup_inertia(m, h) ==
    LET c == MultiWeldGroup_cg(m, h)
        s == MultiWeldGroup_inertia_loop(m, h, Len(m.weld_groups), c)
    IN  InOrder(<<c, s, IF Failed(s) THEN s
                        ELSE Ok(Diag3(s.val[1], s.val[2], s.val[3]))>>)

\* MultiWeldGroup.ixx
MultiWeldGroup_ixx(m, h) == diag_entry(MultiWeldGroup_inertia(m, h), 1)

\* MultiWeldGroup.iyy
MultiWeldGroup_iyy(m, h) == diag_entry(MultiWeldGroup_inertia(m, h), 2)

\* MultiWeldGroup.izz
MultiWeldGroup_izz(m, h) == diag_entry(MultiWeldGroup_inertia(m, h), 3)

----------------------------------------------------------------------------
(* The state: one weld group and the class attribute WeldGroup.count.      *)
(*   placed  the translation and rotation vectors update_transform() found *)
(*           when it was last called, while no placement operation has     *)
(*           followed that call; NotPlaced otherwise (history variable)    *)
(*   direct  the number of direct calls of _translate and _rotateX/Y/Z     *)
(*           since the matrix was last reset (history variable, bounded)   *)
(* and, for the assembly of weld groups:                                   *)
(*   wgs     the weld group objects created for the assembly, in the order *)
(*           of their creation; a reference to one is its index            *)
(*   mwg     the MultiWeldGroup                                            *)
(*   last    the query called last, while no other operation has followed; *)
(*           NoQuery otherwise (history variable)                          *)

VARIABLES wg, count, placed, direct, wgs, mwg, last

vars == <<wg, count, placed, direct, wgs, mwg, last>>

\* the single weld group with its history, and the assembly with its own
single == <<wg, placed, direct>>

assembly == <<wgs, mwg, last>>

NoQuery == << >>

\* bounds of the model
MaxLines == 2

MaxDirect == 1

MaxCount == 3

\* inputs
P(x, y) == [xy |-> <<Z(x), Z(y)>>, isfloat |-> FALSE]

PF(x, y) == [xy |-> <<x, y>>, isfloat |-> TRUE]

V3(x, y, z) == <<Z(x), Z(y), Z(z)>>

\* the segments add_weld_line is called with: vertical from the origin,
\* diagonal from the origin, and one whose ends coincide
SegInputs ==
    {<<P(0, 0), P(0, 1)>>, <<P(0, 0), P(1, 1)>>, <<P(0, 0), P(0, 0)>>}

\* the end point an edit assigns: (0, 0), and (0.5, 0.5)
EditPoints == {P(0, 0), PF(Q(1, 2), Q(1, 2))}

Translations == {V3(0, 5, 5)}

Rotations == {V3(90, 0, 0), V3(0, 0, 360)}

DirectAngles == {Z(90)}

NotPlaced == [t |-> << >>, r |-> << >>]

DefaultSize == Q(1, 4)

Init ==
    /\ wg = WeldGroup_init(NoId, DefaultSize, "fillet", 1).wg
    /\ count = WeldGroup_init(NoId, DefaultSize, "fillet", 1).count
    /\ placed = NotPlaced
    /\ direct = 0
    /\ wgs = << >>
    /\ mwg = MultiWeldGroup_init
    /\ last = NoQuery

\* wg.add_weld_line(from_point, to_point)
AddWeldLine ==
    \E s \in SegInputs :
        /\ Len(wg.weld_lines) < MaxLines
        /\ wg' = add_weld_line(wg, s[1], s[2])
        /\ UNCHANGED <<count, placed, direct>>
        /\ UNCHANGED assembly

\* wg.weld_lines[i].from_point = value
SetFromPoint ==
    \E i \in 1..Len(wg.weld_lines), value \in EditPoints :
        /\ wg' = [wg EXCEPT !.weld_lines[i] = WeldLine_set_from_point(@, value)]
        /\ UNCHANGED <<count, placed, direct>>
        /\ UNCHANGED assembly

\* wg.weld_lines[i].to_point = value
SetToPoint ==
    \E i \in 1..Len(wg.weld_lines), value \in EditPoints :
        /\ wg' = [wg EXCEPT !.weld_lines[i] = WeldLine_set_to_point(@, value)]
        /\ UNCHANGED <<count, placed, direct>>
        /\ UNCHANGED assembly

\* wg.translation = values
SetTranslation ==
    \E values \in Translations :
        /\ wg' = set_translation(wg, values)
        /\ placed' = NotPlaced
        /\ UNCHANGED <<count, direct>>
        /\ UNCHANGED assembly

\* wg.rotation = values
SetRotation ==
    \E values \in Rotations :
        /\ wg' = set_rotation(wg, values)
        /\ placed' = NotPlaced
        /\ UNCHANGED <<count, direct>>
        /\ UNCHANGED assembly

\* wg.update_transform()
UpdateTransform ==
    /\ wg' = update_transform(wg)
    /\ placed' = [t |-> wg._translation, r |-> wg._rotation]
    /\ direct' = 0
    /\ UNCHANGED count
    /\ UNCHANGED assembly

\* wg.reset_transform()
ResetTransform ==
    /\ wg' = reset_transform(wg)
    /\ placed' = NotPlaced
    /\ direct' = 0
    /\ UNCHANGED count
    /\ UNCHANGED assembly

\* wg._translate(tx, ty, tz)
Translate ==
    \E t \in Translations :
        /\ direct < MaxDirect
        /\ wg' = _translate(wg, t[1], t[2], t[3])
        /\ placed' = NotPlaced
        /\ direct' = direct + 1
        /\ UNCHANGED count
        /\ UNCHANGED assembly

\* wg._rotateX(angle)
RotateX ==
    \E angle \in DirectAngles :
        /\ direct < MaxDirect
        /\ wg' = _rotateX(wg, angle)
        /\ placed' = NotPlaced
        /\ direct' = direct + 1
        /\ UNCHANGED count
        /\ UNCHANGED assembly

\* wg._rotateY(angle)
RotateY ==
    \E angle \in DirectAngles :
        /\ direct < MaxDirect
        /\ wg' = _rotateY(wg, angle)
        /\ placed' = NotPlaced
        /\ direct' = direct + 1
        /\ UNCHANGED count
        /\ UNCHANGED assembly

\* wg._rotateZ(angle)
RotateZ ==
    \E angle \in DirectAngles :
        /\ direct < MaxDirect
        /\ wg' = _rotateZ(wg, angle)
        /\ placed' = NotPlaced
        /\ direct' = direct + 1
        /\ UNCHANGED count
        /\ UNCHANGED assembly

Next ==
    \/ AddWeldLine
    \/ SetFromPoint
    \/ SetToPoint
    \/ SetTranslation
    \/ SetRotation
    \/ UpdateTransform
    \/ ResetTransform
    \/ Translate
    \/ RotateX
    \/ RotateY
    \/ RotateZ

\* the placement and geometry operations of one weld group
Spec == Init /\ [][Next]_vars

----------------------------------------------------------------------------
(* Construction, the attributes size and weld_type, the axis limits, and   *)
(* the Apply button of the details form (src/weldview.py).                 *)

\* min(xs) and max(xs) of a non-empty list of floats
MinOf(xs) == CHOOSE x \in xs : \A y \in xs : FLe(x, y)

MaxOf(xs) == CHOOSE x \in xs : \A y \in xs : FLe(y, x)

\* the list xs (k = 1) or ys (k = 2) the limit getters collect, as a set
PlotCoords(g, k) ==
    {WeldLine_from_point(g.weld_lines[i], g)[k] : i \in 1..Len(g.weld_lines)}
    \cup {WeldLine_to_point(g.weld_lines[i], g)[k] : i \in 1..Len(g.weld_lines)}

\* the body shared by the getters of xlim and ylim: min() and max() of an
\* empty list raise ValueError
LimGetter(g, lim, k) ==
    IF (lim[1].auto \/ lim[2].auto) /\ PlotCoords(g, k) = {}
    THEN Raise("ValueError")
    ELSE Ok(<<FMul(Q(5, 4), IF lim[1].auto THEN MinOf(PlotCoords(g, k))
                            ELSE lim[1].v),
              FMul(Q(5, 4), IF lim[2].auto THEN MaxOf(PlotCoords(g, k))
                            ELSE lim[2].v)>>)

\* WeldGroup.xlim (getter)
xlim(g) == LimGetter(g, g._xlim, 1)

\* WeldGroup.ylim (getter)
ylim(g) == LimGetter(g, g._ylim, 2)

\* WeldGroup.xlim (setter)
set_xlim(g, values) == [g EXCEPT !._xlim = values]

\* WeldGroup.ylim (setter)
set_ylim(g, values) == [g EXCEPT !._ylim = values]

\* float(text) for the texts the form is filled with
ParseFloat(text) ==
    CASE text = "0"    -> Ok(Zero)
      [] text = "0.25" -> Ok(Q(1, 4))
      [] text = "0.5"  -> Ok(Q(1, 2))
      [] text = "5"    -> Ok(Z(5))
      [] text = "10"   -> Ok(Z(10))
      [] text = "90"   -> Ok(Z(90))
      [] text = "-1"   -> Ok(Z(-1))
      [] text = "-10"  -> Ok(Z(-10))
      [] OTHER         -> Raise("ValueError")

\* tuple(map(float, texts))
ParseTuple(texts) ==
    IF \E i \in 1..Len(texts) : Failed(ParseFloat(texts[i]))
    THEN Raise("ValueError")
    ELSE Ok([i \in 1..Len(texts) |-> ParseFloat(texts[i]).val])

\* on_weld_group_apply_button, the weld type and the size
apply_general(g, form) ==
    LET g1 == [g EXCEPT !.weld_type = form.weld_type]
        weld_size == ParseFloat(form.weld_size)
    IN  IF Failed(weld_size) \/ FLt(weld_size.val, Zero) THEN g1
        ELSE [g1 EXCEPT !.size = weld_size.val]

\* on_weld_group_apply_button, the translation and the rotation
apply_placement(g, form) ==
    LET t  == ParseTuple(form.translate)
        g1 == IF Failed(t) THEN g ELSE set_translation(g, t.val)
        r  == ParseTuple(form.rotate)
    IN  IF Failed(r) THEN g1 ELSE set_rotation(g1, r.val)

\* on_weld_group_apply_button, the axis limits: a text that is no float
\* makes the handler read the limit back, and the getter may raise out of
\* the handler, which then skips what follows
apply_limits(g, form) ==
    LET x  == ParseTuple(form.xlim)
        g1 == IF Failed(x) THEN g
              ELSE set_xlim(g, <<Lim(x.val[1]), Lim(x.val[2])>>)
        y  == ParseTuple(form.ylim)
    IN  IF Failed(x) /\ Failed(xlim(g)) THEN g
        ELSE IF Failed(y) THEN g1
        ELSE set_ylim(g1, <<Lim(y.val[1]), Lim(y.val[2])>>)

\* WeldGroupDetailsWidget.on_weld_group_apply_button
on_weld_group_apply_button(g, form) ==
    apply_limits(apply_placement(apply_general(g, form), form), form)

\* inputs
IdInputs == {NoId, "2"}

SizeInputs == {Q(1, 4), Q(1, 2), Zero, Z(-1)}

WeldTypeInputs == {"fillet", "groove", "plug"}

\* the form as the user left it: all fields valid; no field valid; a zero
\* size; a size that is no number
Forms ==
    {[weld_type |-> "groove", weld_size |-> "0.5",
      translate |-> <<"0", "5", "5">>, rotate |-> <<"90", "0", "0">>,
      xlim |-> <<"-10", "10">>, ylim |-> <<"-10", "10">>],
     [weld_type |-> "plug", weld_size |-> "-1",
      translate |-> <<"", "0", "0">>, rotate |-> <<"0", "x", "0">>,
      xlim |-> <<"auto", "10">>, ylim |-> <<"-10", "">>],
     [weld_type |-> "fillet", weld_size |-> "0",
      translate |-> <<"0", "0", "0">>, rotate |-> <<"0", "0", "0">>,
      xlim |-> <<"-10", "10">>, ylim |-> <<"abc", "10">>],
     [weld_type |-> "fillet", weld_size |-> "abc",
      translate |-> <<"0", "5", "5">>, rotate |-> <<"0", "0", "0">>,
      xlim |-> <<"abc", "10">>, ylim |-> <<"-10", "10">>]}

\* wg = WeldGroup(id=id, size=size, weld_type=weld_type)
New ==
    \E id \in IdInputs, size \in SizeInputs, weld_type \in WeldTypeInputs :
        /\ id = NoId => count < MaxCount
        /\ wg' = WeldGroup_init(id, size, weld_type, count).wg
        /\ count' = WeldGroup_init(id, size, weld_type, count).count
        /\ placed' = NotPlaced
        /\ direct' = 0
        /\ UNCHANGED assembly

\* wg.size = size
SetSize ==
    \E size \in SizeInputs :
        /\ wg' = [wg EXCEPT !.size = size]
        /\ UNCHANGED <<count, placed, direct>>
        /\ UNCHANGED assembly

\* wg.weld_type = weld_type
SetWeldType ==
    \E weld_type \in WeldTypeInputs :
        /\ wg' = [wg EXCEPT !.weld_type = weld_type]
        /\ UNCHANGED <<count, placed, direct>>
        /\ UNCHANGED assembly

\* the user presses Apply
Apply ==
    \E form \in Forms :
        /\ wg' = on_weld_group_apply_button(wg, form)
        /\ placed' = NotPlaced
        /\ UNCHANGED <<count, direct>>
        /\ UNCHANGED assembly

NextForm ==
    \/ New
    \/ SetSize
    \/ SetWeldType
    \/ AddWeldLine
    \/ Apply

\* construction and editing of one weld group, directly and through the form
SpecForm == Init /\ [][NextForm]_vars

----------------------------------------------------------------------------
(* An assembly, built as the example of the module is: two weld groups    *)
(* and a MultiWeldGroup are created; the groups are given weld lines and   *)
(* placed, and references to them are appended to the MultiWeldGroup; a    *)
(* group may be appended before it has any weld line, more than once, and  *)
(* may change after it was appended.                                       *)

\* bounds of the model
MaxGroupLines == 1

MaxMembers == 2

\* inputs: the size and weld type of the two groups, and the segments
\* given to them (vertical of length 2, horizontal of length 4, both from
\* the origin)
GroupKinds == <<<<Q(1, 4), "fillet">>, <<Q(1, 2), "groove">>>>

GroupSegInputs == {<<P(0, 0), P(0, 2)>>, <<P(0, 0), P(4, 0)>>}

\* wg1 = WeldGroup(size=.., weld_type=..); wg2 = WeldGroup(size=..,
\* weld_type=..); mwg = MultiWeldGroup(), after the one weld group of Init
InitMulti ==
    LET first == WeldGroup_init(NoId, DefaultSize, "fillet", 1)
        wg1 == WeldGroup_init(NoId, GroupKinds[1][1], GroupKinds[1][2],
                              first.count)
        wg2 == WeldGroup_init(NoId, GroupKinds[2][1], GroupKinds[2][2],
                              wg1.count)
    IN  /\ wg = first.wg
        /\ placed = NotPlaced
        /\ direct = 0
        /\ wgs = <<wg1.wg, wg2.wg>>
        /\ count = wg2.count
        /\ mwg = MultiWeldGroup_init
        /\ last = NoQuery

\* wgs[r].add_weld_line(from_point, to_point)
GroupAddWeldLine ==
    \E r \in 1..Len(wgs), s \in GroupSegInputs :
        /\ Len(wgs[r].weld_lines) < MaxGroupLines
        /\ wgs' = [wgs EXCEPT ![r] = add_weld_line(@, s[1], s[2])]
        /\ last' = NoQuery
        /\ UNCHANGED <<count, mwg, single>>

\* wgs[r]._translate(tx, ty, tz), on a group not moved before
GroupTranslate ==
    \E r \in 1..Len(wgs), t \in Translations :
        /\ wgs[r]._transform = Eye4
        /\ wgs' = [wgs EXCEPT ![r] = _translate(@, t[1], t[2], t[3])]
        /\ last' = NoQuery
        /\ UNCHANGED <<count, mwg, single>>

\* mwg.add_weld_group(wgs[r])
AddWeldGroup ==
    \E r \in 1..Len(wgs) :
        /\ Len(mwg.weld_groups) < MaxMembers
        /\ mwg' = add_weld_group(mwg, r)
        /\ last' = NoQuery
        /\ UNCHANGED <<count, wgs, single>>

NextMulti ==
    \/ GroupAddWeldLine
    \/ GroupTranslate
    \/ AddWeldGroup

\* the building of an assembly
SpecMulti == InitMulti /\ [][NextMulti]_vars

\* The queries: <<on, name, r, i>> is the method name called on the
\* assembly, on the group wgs[r], or on the weld line wgs[r].weld_lines[i].
GroupQueryNames ==
    {"length", "area", "cg", "inertia", "ixx", "iyy", "izz"}

SegmentQueryNames ==
    {"from_point", "to_point", "center", "throat", "transform"}

Queries(h) ==
    {<<"assembly", name, 0, 0>> : name \in GroupQueryNames}
    \cup {<<"group", name, r, 0>> :
              name \in GroupQueryNames, r \in 1..Len(h)}
    \cup UNION {{<<"segment", name, r, i>> :
                     name \in SegmentQueryNames, i \in 1..Len(h[r].weld_lines)} :
                r \in 1..Len(h)}

\* what the query q returns, or the error it raises
Answer(q, m, h) ==
    IF q[1] = "assembly"
    THEN CASE q[2] = "length"  -> Ok(MultiWeldGroup_length(m, h))
           [] q[2] = "area"    -> MultiWeldGroup_area(m, h)
           [] q[2] = "cg"      -> MultiWeldGroup_cg(m, h)
           [] q[2] = "inertia" -> MultiWeldGroup_inertia(m, h)
           [] q[2] = "ixx"     -> MultiWeldGroup_ixx(m, h)
           [] q[2] = "iyy"     -> MultiWeldGroup_iyy(m, h)
           [] q[2] = "izz"     -> MultiWeldGroup_izz(m, h)
    ELSE IF q[1] = "group"
    THEN CASE q[2] = "length"  -> Ok(length(h[q[3]]))
           [] q[2] = "area"    -> area(h[q[3]])
           [] q[2] = "cg"      -> cg(h[q[3]])
           [] q[2] = "inertia" -> inertia(h[q[3]])
           [] q[2] = "ixx"     -> ixx(h[q[3]])
           [] q[2] = "iyy"     -> iyy(h[q[3]])
           [] q[2] = "izz"     -> izz(h[q[3]])
    ELSE LET g  == h[q[3]]
             wl == g.weld_lines[q[4]]
         IN  CASE q[2] = "from_point" -> Ok(WeldLine_from_point(wl, g))
               [] q[2] = "to_point"   -> Ok(WeldLine_to_point(wl, g))
               [] q[2] = "center"     -> Ok(WeldLine_center(wl, g))
               [] q[2] = "throat"     -> Ok(WeldLine_throat(wl, g))
               [] q[2] = "transform"  -> Ok(WeldLine_transform(wl))

\* the objects and the class attribute a query could reach
Objects == [wgs |-> wgs, mwg |-> mwg, count |-> count]

\* a query that resets the placement of every group it can reach
Queried_resets(o, q) ==
    [o EXCEPT !.wgs = [r \in 1..Len(o.wgs) |-> reset_transform(o.wgs[r])]]

\* the objects after the query q: no query method holds an assignment to
\* an attribute, an in-place array operation or a call of a mutator
Queried(o, q) == o

\* a query is called; the state it leaves is the state a second call of
\* it, or of any other query, starts from
Ask ==
    \E q \in Queries(wgs) :
        /\ last = NoQuery
        /\ last' = q
        /\ wgs' = Queried(Objects, q).wgs
        /\ mwg' = Queried(Objects, q).mwg
        /\ count' = Queried(Objects, q).count
        /\ UNCHANGED single

NextQuery ==
    \/ GroupAddWeldLine
    \/ GroupTranslate
    \/ AddWeldGroup
    \/ Ask

\* the building of an assembly, with queries in between
SpecQuery == InitMulti /\ [][NextQuery]_vars

----------------------------------------------------------------------------
(* Properties of the program.                                              *)

\* T(t) . Rx(rx) . Ry(ry) . Rz(rz), written out, for angles in degrees
TMat(t) ==
    <<<<One, Zero, Zero, t[1]>>, <<Zero, One, Zero, t[2]>>,
      <<Zero, Zero, One, t[3]>>, <<Zero, Zero, Zero, One>>>>

RxMat(a) ==
    <<<<One, Zero, Zero, Zero>>, <<Zero, Cos(a), FNeg(Sin(a)), Zero>>,
      <<Zero, Sin(a), Cos(a), Zero>>, <<Zero, Zero, Zero, One>>>>

RyMat(a) ==
    <<<<Cos(a), Zero, Sin(a), Zero>>, <<Zero, One, Zero, Zero>>,
      <<FNeg(Sin(a)), Zero, Cos(a), Zero>>, <<Zero, Zero, Zero, One>>>>

RzMat(a) ==
    <<<<Cos(a), FNeg(Sin(a)), Zero, Zero>>, <<Sin(a), Cos(a), Zero, Zero>>,
      <<Zero, Zero, One, Zero>>, <<Zero, Zero, Zero, One>>>>

Compose(t, r) ==
    MatMul4(MatMul4(MatMul4(TMat(t), RxMat(r[1])), RyMat(r[2])), RzMat(r[3]))

Lines == {wg.weld_lines[i] : i \in 1..Len(wg.weld_lines)}

Degenerate(wl) == wl._from_point = wl._to_point

\* M applied to the local point (x, y, 0, 1), coordinate by coordinate
Applied(M, p) ==
    LET e(k) == FAdd(FAdd(FMul(M[k][1], p[1]), FMul(M[k][2], p[2])), M[k][4])
    IN  <<e(1), e(2), e(3)>>

\* an operation that changes the placement of the group
PlacementChange ==
    \/ SetTranslation \/ SetRotation \/ UpdateTransform \/ ResetTransform
    \/ Translate \/ RotateX \/ RotateY \/ RotateZ

\* C1 as stated: in every state the matrix the queries use is the one
\* composed from the stored translation and rotation vectors.
C1_TransformNeverStale ==
    wg._transform = Compose(wg._translation, wg._rotation)

\* C1 as amended: the matrix the queries use is the stored one; it equals
\* the composition of the stored vectors once update_transform() has run and
\* no placement operation has followed, and adding a weld line, editing an
\* end point, or assigning translation or rotation leaves it as it was.
C1_TransformFreshOnlyAfterUpdate ==
    /\ [](placed # NotPlaced
            => wg._transform = Compose(wg._translation, wg._rotation))
    /\ [][(AddWeldLine \/ SetFromPoint \/ SetToPoint
                \/ SetTranslation \/ SetRotation)
            => wg'._transform = wg._transform]_vars

C1_Witness ==
    /\ placed # NotPlaced
    /\ placed.t = V3(0, 5, 5)
    /\ Len(wg.weld_lines) > 0

\* C2: after translation t and rotation r were assigned and
\* update_transform() was called, the stored vectors are t and r.
C2_PlacementVectorsKept ==
    placed # NotPlaced
        => wg._translation = placed.t /\ wg._rotation = placed.r

\* C3: after translation t and rotation r were assigned and
\* update_transform() was called, the matrix is T(t).Rx.Ry.Rz.
C3_TransformIsTRxRyRz ==
    placed # NotPlaced => wg._transform = Compose(placed.t, placed.r)

\* C4: the points a weld line reports are the group's current matrix applied
\* to its stored local end points (z = 0, w = 1), the centre is their
\* midpoint, and no placement operation changes the stored end points.
C4_ReportedThroughTransform ==
    /\ [](\A wl \in Lines :
            /\ WeldLine_from_point(wl, wg)
                 = Applied(wg._transform, wl._from_point)
            /\ WeldLine_to_point(wl, wg) = Applied(wg._transform, wl._to_point)
            /\ WeldLine_center(wl, wg)
                 = VDivS(VAdd(Applied(wg._transform, wl._from_point),
                              Applied(wg._transform, wl._to_point)), Z(2))
            /\ wl._from_point[3] = Zero /\ wl._from_point[4] = One
            /\ wl._to_point[3] = Zero /\ wl._to_point[4] = One)
    /\ [][PlacementChange => wg'.weld_lines = wg.weld_lines]_vars

C4_Witness ==
    \E wl \in Lines :
        /\ WeldLine_from_point(wl, wg) # Vec3(wl._from_point)
        /\ WeldLine_to_point(wl, wg) # Vec3(wl._to_point)
        /\ wg._transform # Eye4

\* C5: placing the group again with the same translation and rotation, or
\* calling update_transform() a second time, gives the same matrix, cg() and
\* inertia() as placing it once.
C5_PlacementIdempotent ==
    placed # NotPlaced =>
        LET again == update_transform(
                         set_rotation(set_translation(wg, placed.t), placed.r))
            twice == update_transform(wg)
        IN  /\ again._transform = wg._transform
            /\ cg(again) = cg(wg)
            /\ inertia(again) = inertia(wg)
            /\ twice._transform = wg._transform
            /\ cg(twice) = cg(wg)
            /\ inertia(twice) = inertia(wg)

C5_Witness ==
    /\ placed # NotPlaced
    /\ placed.t = V3(0, 5, 5)
    /\ placed.r = V3(90, 0, 0)
    /\ Len(wg.weld_lines) = 2
    /\ \A wl \in Lines : ~Degenerate(wl)

FullTurns == {V3(360, 0, 0), V3(0, 360, 0), V3(0, 0, 360)}

\* the group under the identity placement
AtIdentity(g) == [g EXCEPT !._transform = Eye4]

\* C6: with the rotation set to a full turn about one axis and the transform
\* updated, length(), area() and inertia() are what they are under the
\* identity placement.
C6_FullTurnChangesNothing ==
    LET base == <<length(AtIdentity(wg)), area(AtIdentity(wg)),
                  inertia(AtIdentity(wg))>>
    IN  /\ \A r \in FullTurns :
              LET g == update_transform(set_rotation(wg, r))
              IN  <<length(g), area(g), inertia(g)>> = base
        /\ placed # NotPlaced /\ placed.r \in FullTurns
              => <<length(wg), area(wg), inertia(wg)>> = base

C6_Witness ==
    /\ placed # NotPlaced
    /\ placed.r = V3(0, 0, 360)
    /\ Len(wg.weld_lines) > 0
    /\ \A wl \in Lines : ~Degenerate(wl)

SupportedWeldTypes == {"fillet", "groove"}

\* C7: no group ever holds a weld type other than fillet or groove, so no
\* query meets one.
C7_WeldTypeRejectedEagerly ==
    /\ wg.weld_type \in SupportedWeldTypes
    /\ \A wl \in Lines : WeldLine_throat(wl, wg) # None
    /\ area(wg).err # "TypeError"

\* C8: no group ever holds a size that is not strictly positive.
C8_SizeAlwaysPositive == FLt(Zero, wg.size)

HasNaN3(v) == \E i \in 1..3 : IsNaN(v[i])

\* C9: for a weld line whose end points coincide, inertia() of the line and
\* of its group raise, and neither cg() nor inertia() of the group holds a
\* NaN.
C9_DegenerateSegmentRaises ==
    \A wl \in Lines :
        Degenerate(wl) =>
            /\ Failed(WeldLine_inertia(wl, wg))
            /\ Failed(inertia(wg))
            /\ ~HasNaN3(cg(wg).val)

\* C10: on a group with no weld line, cg(), inertia(), ixx(), iyy() and
\* izz() all raise.
C10_EmptyGroupRaises ==
    Len(wg.weld_lines) = 0 =>
        /\ Failed(cg(wg))
        /\ Failed(inertia(wg))
        /\ Failed(ixx(wg)) /\ Failed(iyy(wg)) /\ Failed(izz(wg))

\* C11: on an assembly with no weld group, cg(), inertia(), ixx(), iyy()
\* and izz() all raise.
C11_EmptyAssemblyRaises ==
    Len(mwg.weld_groups) = 0 =>
        /\ Failed(MultiWeldGroup_cg(mwg, wgs))
        /\ Failed(MultiWeldGroup_inertia(mwg, wgs))
        /\ Failed(MultiWeldGroup_ixx(mwg, wgs))
        /\ Failed(MultiWeldGroup_iyy(mwg, wgs))
        /\ Failed(MultiWeldGroup_izz(mwg, wgs))

\* the groups of the repository's tests: one segment from (0, -5) to
\* (0, 5), and the outline of the 5 x 10 rectangle, size 0.25, fillet
TestGroup == WeldGroup_init(NoId, Q(1, 4), "fillet", 1).wg

SingleSegment == add_weld_line(TestGroup, P(0, -5), P(0, 5))

Rectangle ==
    add_weld_line(
        add_weld_line(
            add_weld_line(
                add_weld_line(TestGroup, PF(Q(-5, 2), Z(-5)), PF(Q(-5, 2), Z(5))),
                PF(Q(5, 2), Z(-5)), PF(Q(5, 2), Z(5))),
            PF(Q(-5, 2), Z(5)), PF(Q(5, 2), Z(5))),
        PF(Q(-5, 2), Z(-5)), PF(Q(5, 2), Z(-5)))

\* the Euclidean distance between two points
Distance(a, b) ==
    FSqrt(Sum3(FMul(FSub(b[1], a[1]), FSub(b[1], a[1])),
               FMul(FSub(b[2], a[2]), FSub(b[2], a[2])),
               FMul(FSub(b[3], a[3]), FSub(b[3], a[3]))))

\* the end points of a weld line of g as the claims describe them: the
\* stored local points taken through the matrix of the group
FromOf(wl, g) == Applied(g._transform, wl._from_point)

ToOf(wl, g) == Applied(g._transform, wl._to_point)

SegmentLength(wl, g) == Distance(FromOf(wl, g), ToOf(wl, g))

RECURSIVE SumOfLengths(_, _)
\* the sum of the lengths of the first n weld lines of g
SumOfLengths(g, n) ==
    IF n = 0 THEN Zero
    ELSE FAdd(SumOfLengths(g, n - 1), SegmentLength(g.weld_lines[n], g))

\* the lengths the tests expect
TestLengths ==
    /\ length(SingleSegment) = Z(10)
    /\ length(Rectangle) = Z(30)

\* C12: length() of a group is the sum, over its weld lines, of the distance
\* between the transformed end points; it is 10 for the single segment and
\* 30 for the rectangle of the tests.
C12_LengthIsSumOfSegments ==
    /\ length(wg) = SumOfLengths(wg, Len(wg.weld_lines))
    /\ TestLengths

\* two weld lines of lengths 1 and sqrt 2 in a group that was moved
C12_Witness ==
    /\ Len(wg.weld_lines) = 2
    /\ wg._transform # Eye4
    /\ length(wg) = <<1, 1, 1>>

Sqrt2 == <<0, 1, 1>>

\* the throat the claims give a weld of a supported type
ThroatOf(size, weld_type) ==
    IF weld_type = "fillet" THEN FDiv(size, Sqrt2) ELSE size

RECURSIVE SumOfAreas(_, _)
\* the sum of throat x length over the first n weld lines of g
SumOfAreas(g, n) ==
    IF n = 0 THEN Zero
    ELSE FAdd(SumOfAreas(g, n - 1),
              FMul(ThroatOf(g.size, g.weld_type),
                   SegmentLength(g.weld_lines[n], g)))

\* the areas the tests expect: 5 sqrt2 / 4 and 15 sqrt2 / 4
TestAreas ==
    /\ area(SingleSegment) = Ok(<<0, 5, 4>>)
    /\ area(Rectangle) = Ok(<<0, 15, 4>>)

\* C13: for a fillet or a groove weld, area() of a group is the sum over its
\* weld lines of throat x length, the throat being size / sqrt 2 for a
\* fillet and the size for a groove; it is 0.25 / sqrt 2 x 10 for the single
\* segment and 0.25 / sqrt 2 x 30 for the rectangle of the tests.
C13_AreaIsThroatTimesLength ==
    /\ wg.weld_type \in SupportedWeldTypes =>
           area(wg) = Ok(SumOfAreas(wg, Len(wg.weld_lines)))
    /\ TestAreas

\* a groove weld of size 1/2 with lines of lengths 1 and sqrt 2, and a
\* fillet weld of size 1/4 with the same lines
C13_Witness ==
    /\ Len(wg.weld_lines) = 2
    /\ \/ wg.weld_type = "groove" /\ area(wg) = Ok(<<1, 1, 2>>)
       \/ wg.weld_type = "fillet" /\ area(wg) = Ok(<<2, 1, 8>>)

\* the circle of the tests, radius 10, with 4 chords in place of 100: the
\* corners of a chord of the 100 lie outside Q(sqrt 2)
Circle4 ==
    add_weld_line(
        add_weld_line(
            add_weld_line(
                add_weld_line(TestGroup, PF(Z(10), Z(0)), PF(Z(0), Z(10))),
                PF(Z(0), Z(10)), PF(Z(-10), Z(0))),
            PF(Z(-10), Z(0)), PF(Z(0), Z(-10))),
        PF(Z(0), Z(-10)), PF(Z(10), Z(0)))

\* the midpoint of the transformed end points of a weld line
MidPoint(wl, g) ==
    <<FDiv(FAdd(FromOf(wl, g)[1], ToOf(wl, g)[1]), Z(2)),
      FDiv(FAdd(FromOf(wl, g)[2], ToOf(wl, g)[2]), Z(2)),
      FDiv(FAdd(FromOf(wl, g)[3], ToOf(wl, g)[3]), Z(2))>>

RECURSIVE SumOfMoments(_, _, _)
\* the sum of center[k] x length over the first n weld lines of g
SumOfMoments(g, n, k) ==
    IF n = 0 THEN Zero
    ELSE FAdd(SumOfMoments(g, n - 1, k),
              FMul(MidPoint(g.weld_lines[n], g)[k],
                   SegmentLength(g.weld_lines[n], g)))

\* sum(center_i x length_i) / sum(length_i)
WeightedCenter(g) ==
    LET n == Len(g.weld_lines)
    IN  <<FDiv(SumOfMoments(g, n, 1), SumOfLengths(g, n)),
          FDiv(SumOfMoments(g, n, 2), SumOfLengths(g, n)),
          FDiv(SumOfMoments(g, n, 3), SumOfLengths(g, n))>>

\* the centres of gravity the tests expect
TestCentres ==
    /\ cg(Rectangle) = Ok(Zeros3)
    /\ cg(Circle4) = Ok(Zeros3)

\* C14: cg() of a group whose weld lines have a length is the average of
\* the midpoints of the lines weighted by their lengths; it is the origin
\* for the rectangle of the tests and for a circle of chords about the
\* origin.
C14_CgIsLengthWeightedCenter ==
    /\ SumOfLengths(wg, Len(wg.weld_lines)) # Zero =>
           cg(wg) = Ok(WeightedCenter(wg))
    /\ TestCentres

\* two weld lines of different lengths in a group that was moved
C14_Witness ==
    /\ Len(wg.weld_lines) = 2
    /\ wg._transform # Eye4
    /\ SegmentLength(wg.weld_lines[1], wg) = One
    /\ SegmentLength(wg.weld_lines[2], wg) = Sqrt2
    /\ ~Failed(cg(wg))

\* one horizontal segment from (-5, 0) to (5, 0), size 0.25, fillet
HorizontalSegment == add_weld_line(TestGroup, P(-5, 0), P(5, 0))

\* the local frame of a weld line as the claims describe it: y the unit
\* vector from 'from' to 'to', z the global Z, x = y cross z; Frame[m] is
\* the m-th axis
Frame(wl) ==
    LET a  == Vec3(wl._from_point)
        b  == Vec3(wl._to_point)
        d  == Distance(a, b)
        y1 == FDiv(FSub(b[1], a[1]), d)
        y2 == FDiv(FSub(b[2], a[2]), d)
        y3 == FDiv(FSub(b[3], a[3]), d)
    IN  <<<<y2, FNeg(y1), Zero>>, <<y1, y2, y3>>, <<Zero, Zero, One>>>>

\* Ix, Iy, Iz of a weld line about its own axes
OwnMoments(wl, g) ==
    LET t  == ThroatOf(g.size, g.weld_type)
        L  == SegmentLength(wl, g)
        Ix == FDiv(FMul(t, FMul(L, FMul(L, L))), Z(12))
        Iy == FDiv(FMul(FMul(t, FMul(t, t)), L), Z(12))
    IN  <<Ix, Iy, FAdd(Ix, Iy)>>

\* entry (j, k) of diag(Ix, Iy, Iz) rotated by the frame
RotatedEntry(F, D, j, k) ==
    Sum3(FMul(FMul(F[1][j], D[1]), F[1][k]),
         FMul(FMul(F[2][j], D[2]), F[2][k]),
         FMul(FMul(F[3][j], D[3]), F[3][k]))

SegmentTensor(wl, g) ==
    LET F == Frame(wl)
        D == OwnMoments(wl, g)
    IN  <<<<RotatedEntry(F, D, 1, 1), RotatedEntry(F, D, 1, 2),
            RotatedEntry(F, D, 1, 3)>>,
          <<RotatedEntry(F, D, 2, 1), RotatedEntry(F, D, 2, 2),
            RotatedEntry(F, D, 2, 3)>>,
          <<RotatedEntry(F, D, 3, 1), RotatedEntry(F, D, 3, 2),
            RotatedEntry(F, D, 3, 3)>>>>

\* ixx and iyy of the vertical segment as the tests expect them, and of the
\* horizontal one
TestSegmentMoments ==
    /\ ixx(SingleSegment) = Ok(<<0, 125, 12>>)
    /\ iyy(SingleSegment) = Ok(<<0, 5, 1536>>)
    /\ ixx(HorizontalSegment) = Ok(<<0, 5, 1536>>)
    /\ iyy(HorizontalSegment) = Ok(<<0, 125, 12>>)

\* C15: inertia() of a weld line whose ends differ is diag(Ix, Iy, Iz), with
\* Ix = throat x length^3 / 12, Iy = throat^3 x length / 12, Iz = Ix + Iy,
\* rotated by the local frame of the line; for the vertical segment of the
\* tests ixx is 125 sqrt2 / 12 and iyy is 5 sqrt2 / 1536, and for a
\* horizontal segment of the same length the two are swapped.
C15_SegmentTensorInLocalFrame ==
    /\ \A wl \in Lines :
           ~Degenerate(wl) =>
               WeldLine_inertia(wl, wg) = Ok(SegmentTensor(wl, wg))
    /\ TestSegmentMoments

\* a diagonal weld line, whose frame is not the group's, in a group that
\* was moved
C15_Witness ==
    /\ wg._transform # Eye4
    /\ \E wl \in Lines :
           /\ wl._from_point[1] # wl._to_point[1]
           /\ wl._from_point[2] # wl._to_point[2]
           /\ ~Failed(WeldLine_inertia(wl, wg))

\* throat x length x (R.R - R[k]^2) of a weld line, R being its center less
\* the center of gravity c
ShiftTerm(wl, g, c, k) ==
    LET R == <<FSub(MidPoint(wl, g)[1], c[1]), FSub(MidPoint(wl, g)[2], c[2]),
               FSub(MidPoint(wl, g)[3], c[3])>>
        w == FMul(ThroatOf(g.size, g.weld_type), SegmentLength(wl, g))
    IN  FMul(w, FSub(Sum3(FMul(R[1], R[1]), FMul(R[2], R[2]),
                          FMul(R[3], R[3])),
                     FMul(R[k], R[k])))

\* the tensor of a weld line in the frame of the group: as inertia() of the
\* line returns it (turned = FALSE), or turned once more by the rotation of
\* the group's matrix (turned = TRUE)
InGroupFrame(wl, g, turned) ==
    IF turned
    THEN MatMul3(MatMul3(Block3(g._transform), SegmentTensor(wl, g)),
                 Transpose3(Block3(g._transform)))
    ELSE SegmentTensor(wl, g)

RECURSIVE SumOfShifted(_, _, _, _)
\* the k-th diagonal entry summed over the first n weld lines of g
SumOfShifted(g, n, k, turned) ==
    IF n = 0 THEN Zero
    ELSE FAdd(SumOfShifted(g, n - 1, k, turned),
              FAdd(InGroupFrame(g.weld_lines[n], g, turned)[k][k],
                   ShiftTerm(g.weld_lines[n], g, WeightedCenter(g), k)))

GroupTensor(g, turned) ==
    Diag3(SumOfShifted(g, Len(g.weld_lines), 1, turned),
          SumOfShifted(g, Len(g.weld_lines), 2, turned),
          SumOfShifted(g, Len(g.weld_lines), 3, turned))

\* ixx of the rectangle as the tests expect it
TestRectangleIxx == ixx(Rectangle) = Ok(<<0, 80005, 1536>>)

\* C16: for a group of weld lines whose ends differ, inertia() is the
\* diagonal matrix whose k-th entry is the sum over the lines of the k-th
\* diagonal entry of the line's tensor in the frame of the group plus
\* throat x length x (R.R - R[k]^2), under either reading of "in the frame
\* of the group"; ixx of the rectangle of the tests is 80005 sqrt2 / 1536.
C16_GroupTensorIsShiftedSum ==
    /\ (Len(wg.weld_lines) > 0 /\ \A wl \in Lines : ~Degenerate(wl)) =>
           \/ inertia(wg) = Ok(GroupTensor(wg, FALSE))
           \/ inertia(wg) = Ok(GroupTensor(wg, TRUE))
    /\ TestRectangleIxx

\* the n-th member of the assembly, as it is now
MemberOf(n) == wgs[mwg.weld_groups[n]]

Members == 1..Len(mwg.weld_groups)

RECURSIVE SumOfGroupLengths(_)
\* the sum of length() over the first n members
SumOfGroupLengths(n) ==
    IF n = 0 THEN Zero
    ELSE FAdd(SumOfGroupLengths(n - 1), length(MemberOf(n)))

RECURSIVE SumOfGroupAreas(_)
\* the sum of area() over the first n members
SumOfGroupAreas(n) ==
    IF n = 0 THEN Zero
    ELSE FAdd(SumOfGroupAreas(n - 1), area(MemberOf(n)).val)

RECURSIVE SumOfGroupMoments(_, _)
\* the sum of cg()[k] x length() over the first n members
SumOfGroupMoments(n, k) ==
    IF n = 0 THEN Zero
    ELSE FAdd(SumOfGroupMoments(n - 1, k),
              FMul(cg(MemberOf(n)).val[k], length(MemberOf(n))))

\* sum(cg_g x length_g) / sum(length_g)
WeightedGroupCenter ==
    LET n == Len(mwg.weld_groups)
    IN  <<FDiv(SumOfGroupMoments(n, 1), SumOfGroupLengths(n)),
          FDiv(SumOfGroupMoments(n, 2), SumOfGroupLengths(n)),
          FDiv(SumOfGroupMoments(n, 3), SumOfGroupLengths(n))>>

\* every member has a weld line, and there is a member
AllMembersHaveLines ==
    /\ Len(mwg.weld_groups) > 0
    /\ \A n \in Members : Len(MemberOf(n).weld_lines) > 0

\* C17: length() and area() of an assembly are the sums of length() and
\* area() of its members, and, when every member has a weld line, cg() is
\* the average of the members' cg() weighted by their length().
C17_AssemblySumsOverMembers ==
    /\ MultiWeldGroup_length(mwg, wgs) =
           SumOfGroupLengths(Len(mwg.weld_groups))
    /\ MultiWeldGroup_area(mwg, wgs) =
           Ok(SumOfGroupAreas(Len(mwg.weld_groups)))
    /\ AllMembersHaveLines =>
           MultiWeldGroup_cg(mwg, wgs) = Ok(WeightedGroupCenter)

\* two different members of lengths 2 and 4, one of them moved
C17_Witness ==
    /\ Len(mwg.weld_groups) = 2
    /\ mwg.weld_groups[1] # mwg.weld_groups[2]
    /\ length(MemberOf(1)) = Z(2)
    /\ length(MemberOf(2)) = Z(4)
    /\ MemberOf(1)._transform # Eye4
    /\ MemberOf(2)._transform = Eye4
    /\ ~Failed(MultiWeldGroup_cg(mwg, wgs))

\* length x (R.R - R[k]^2) of a member, R being its cg() less the center of
\* gravity c of the assembly
GroupShiftTerm(g, c, k) ==
    LET R == <<FSub(cg(g).val[1], c[1]), FSub(cg(g).val[2], c[2]),
               FSub(cg(g).val[3], c[3])>>
    IN  FMul(length(g),
             FSub(Sum3(FMul(R[1], R[1]), FMul(R[2], R[2]), FMul(R[3], R[3])),
                  FMul(R[k], R[k])))

RECURSIVE SumOfGroupShifted(_, _)
\* the k-th diagonal entry summed over the first n members
SumOfGroupShifted(n, k) ==
    IF n = 0 THEN Zero
    ELSE FAdd(SumOfGroupShifted(n - 1, k),
              FAdd(inertia(MemberOf(n)).val[k][k],
                   GroupShiftTerm(MemberOf(n), WeightedGroupCenter, k)))

AssemblyTensor ==
    Diag3(SumOfGroupShifted(Len(mwg.weld_groups), 1),
          SumOfGroupShifted(Len(mwg.weld_groups), 2),
          SumOfGroupShifted(Len(mwg.weld_groups), 3))

\* in the rectangle of the tests the shift of a weld line is weighed by
\* throat x length
TestRectangleTensor == inertia(Rectangle) = Ok(GroupTensor(Rectangle, FALSE))

\* C18: when every member has a weld line, inertia() of an assembly is the
\* diagonal matrix whose k-th entry is the sum over the members of the k-th
\* diagonal entry of the member's inertia() plus length x (R.R - R[k]^2),
\* the weight being the plain length of the member; in a group the weight
\* of a weld line is throat x length, as on the rectangle of the tests.
C18_AssemblyShiftWeighsByLength ==
    /\ AllMembersHaveLines =>
           MultiWeldGroup_inertia(mwg, wgs) = Ok(AssemblyTensor)
    /\ TestRectangleTensor

\* two different members, a fillet weld of throat sqrt2 / 8 among them, at
\* different places
C18_Witness ==
    /\ Len(mwg.weld_groups) = 2
    /\ mwg.weld_groups[1] # mwg.weld_groups[2]
    /\ AllMembersHaveLines
    /\ \E n \in Members : MemberOf(n).weld_type = "fillet"
    /\ cg(MemberOf(1)) # cg(MemberOf(2))
    /\ ~Failed(MultiWeldGroup_inertia(mwg, wgs))

\* C19: assigning a new size or weld type to a group leaves throat(),
\* area() and inertia() of every weld line already in the group as they
\* were.
C19_SegmentKeepsSizeAndType ==
    [][(SetSize \/ SetWeldType) =>
           \A i \in 1..Len(wg.weld_lines) :
               /\ WeldLine_throat(wg'.weld_lines[i], wg') =
                      WeldLine_throat(wg.weld_lines[i], wg)
               /\ WeldLine_area(wg'.weld_lines[i], wg') =
                      WeldLine_area(wg.weld_lines[i], wg)
               /\ WeldLine_inertia(wg'.weld_lines[i], wg') =
                      WeldLine_inertia(wg.weld_lines[i], wg)]_vars

C21_LimitsHandedBack ==
    /\ ~Failed(xlim(wg))
    /\ ~Failed(ylim(wg))
    /\ (~wg._xlim[1].auto /\ ~wg._xlim[2].auto)
           => xlim(wg) = Ok(<<wg._xlim[1].v, wg._xlim[2].v>>)
    /\ (~wg._ylim[1].auto /\ ~wg._ylim[2].auto)
           => ylim(wg) = Ok(<<wg._ylim[1].v, wg._ylim[2].v>>)

\* the tensor of a weld line carried by the rotation block of the group's
\* matrix: rmat @ weld_line.inertia() @ rmat.T
CarriedTensor(wl, g) ==
    MatMul3(MatMul3(rmat(g), WeldLine_inertia(wl, g).val),
            Transpose3(rmat(g)))

\* what a pass of the loop of inertia() adds to the k-th sum, less the
\* shift term of the pass
AccumulatedEntry(wl, g, k) ==
    FSub(inertia_J(wl, g, cg(g).val)[k][k], ShiftTerm(wl, g, cg(g).val, k))

\* C22: for every weld line whose ends differ, what inertia() accumulates
\* for an axis before the shift is the diagonal entry of the matrix product
\* R . I . R-transpose, I being the tensor inertia() of the line returns and
\* R the rotation block of the group's matrix.
C22_TensorCarriedBySimilarity ==
    \A wl \in Lines :
        ~Degenerate(wl) =>
            \A k \in 1..3 :
                AccumulatedEntry(wl, wg, k) = CarriedTensor(wl, wg)[k][k]

\* the orders in which n weld lines can be appended
Orders(n) == {o \in [1..n -> 1..n] : \A i, j \in 1..n : o[i] = o[j] => i = j}

\* the tuple a stored end point was given as
GivenAs(p, isfloat) == [xy |-> <<p[1], p[2]>>, isfloat |-> isfloat]

RECURSIVE AddedInOrder(_, _, _)
\* a group with the size, weld type and placement of g, that received the
\* weld lines order[1], .., order[n] of g through add_weld_line
AddedInOrder(g, order, n) ==
    IF n = 0 THEN [g EXCEPT !.weld_lines = << >>]
    ELSE LET wl == g.weld_lines[order[n]]
         IN  add_weld_line(AddedInOrder(g, order, n - 1),
                           GivenAs(wl._from_point, wl.from_float),
                           GivenAs(wl._to_point, wl.to_float))

\* C23: a group that received the weld lines of wg in another order holds
\* them in the order it received them, and reports the length(), area(),
\* cg() and inertia() wg reports (an error or a value that is not a number
\* in one is the same in the other).
C23_OrderDoesNotMatter ==
    \A order \in Orders(Len(wg.weld_lines)) :
        LET other == AddedInOrder(wg, order, Len(wg.weld_lines))
        IN  /\ \A i \in 1..Len(wg.weld_lines) :
                   other.weld_lines[i] = wg.weld_lines[order[i]]
            /\ length(other) = length(wg)
            /\ area(other) = area(wg)
            /\ cg(other) = cg(wg)
            /\ inertia(other) = inertia(wg)

\* two different weld lines whose ends differ, in a group that was moved
C23_Witness ==
    /\ Len(wg.weld_lines) = 2
    /\ wg.weld_lines[1] # wg.weld_lines[2]
    /\ \A wl \in Lines : ~Degenerate(wl)
    /\ wg._transform # Eye4
    /\ ~Failed(inertia(wg))

\* izz() = ixx() + iyy() of the group g
Perpendicular(g) ==
    /\ ~Failed(inertia(g))
    /\ izz(g).val = FAdd(ixx(g).val, iyy(g).val)

\* the groups of the tests
TestPerpendicular ==
    /\ Perpendicular(SingleSegment)
    /\ Perpendicular(Rectangle)
    /\ Perpendicular(Circle4)

FromPointAssigned(i, value) ==
    wg' = [wg EXCEPT !.weld_lines[i] = WeldLine_set_from_point(@, value)]

\* the step assigns value to the to point of the i-th weld line
ToPointAssigned(i, value) ==
    wg' = [wg EXCEPT !.weld_lines[i] = WeldLine_set_to_point(@, value)]

\* (x, y, 0) of the tuple (x, y)
ReadBack(value) == <<value.xy[1], value.xy[2], Zero>>

\* C25: while the matrix of the group is the identity, an end point that
\* was assigned (x, y) is read as (x, y, 0), and the other end point of the
\* line is read as before.
C25_EndpointRoundTrip ==
    [][\A i \in 1..Len(wg.weld_lines), value \in EditPoints :
           /\ (SetFromPoint /\ FromPointAssigned(i, value)
                   /\ wg._transform = Eye4) =>
                  /\ WeldLine_from_point(wg'.weld_lines[i], wg') =
                         ReadBack(value)
                  /\ WeldLine_to_point(wg'.weld_lines[i], wg') =
                         WeldLine_to_point(wg.weld_lines[i], wg)
           /\ (SetToPoint /\ ToPointAssigned(i, value)
                   /\ wg._transform = Eye4) =>
                  /\ WeldLine_to_point(wg'.weld_lines[i], wg') =
                         ReadBack(value)
                  /\ WeldLine_from_point(wg'.weld_lines[i], wg') =
                         WeldLine_from_point(wg.weld_lines[i], wg)]_vars

\* the step constructs a weld group with these arguments
Constructed(id, size, weld_type) ==
    /\ wg' = WeldGroup_init(id, size, weld_type, count).wg
    /\ count' = WeldGroup_init(id, size, weld_type, count).count

\* C26: a group constructed without an id carries str(count), an id the
\* group constructed before it does not carry, and count grows by one; a
\* group constructed with an id carries it and leaves count as it was.
C26_CounterIdsUnique ==
    [][\A id \in IdInputs, size \in SizeInputs, weld_type \in WeldTypeInputs :
           (New /\ Constructed(id, size, weld_type)) =>
               IF id = NoId
               THEN /\ wg'.id = ToString(count)
                    /\ count' = count + 1
                    /\ wg'.id # wg.id
               ELSE /\ wg'.id = id
                    /\ count' = count]_vars

=============================================================================
